---- MODULE Spec2Model ----
(***************************************************************************)
(* Wire-format layer of rust-ssh: the identification line codec            *)
(* (identification/mod.rs), NameList and the KexInit message               *)
(* (message/mod.rs).                                                       *)
(*                                                                         *)
(* A Rust String is modelled as what it is: its sequence of UTF-8 bytes.   *)
(* len() is the number of bytes, a slice s[a..b] takes bytes and panics    *)
(* when an index is out of range or not on a character boundary, chars()   *)
(* decodes code points, and `c as u8` keeps the low eight bits.            *)
(***************************************************************************)
EXTENDS Integers, Sequences, FiniteSets, TLC

VARIABLES op, arg, res, origin

vars == <<op, arg, res, origin>>

(***************************************************************************)
(* Bounds of the explored inputs.                                          *)
(***************************************************************************)
MaxSwLen == 1
MaxCommentLen == 2
MaxBodyLen == 2
MaxNames == 2
MaxNameLen == 1
MaxServiceLen == 2
MaxDataLen == 64
MaxPayloadLen == 20

(***************************************************************************)
(* Characters, as UTF-8 byte sequences.                                    *)
(***************************************************************************)
CR == <<13>>
LF == <<10>>
SP == <<32>>
NUL == <<0>>
DASH == <<45>>
COMMA == <<44>>
LowerA == <<97>>
EAcute == <<195, 169>>

\* "SSH-", "2.0", "1.", "1.99" as bytes
SSH_DASH == <<83, 83, 72, 45>>
V20 == <<50, 46, 48>>
V1DOT == <<49, 46>>
V199 == <<49, 46, 57, 57>>

(***************************************************************************)
(* Option and Result values.                                               *)
(***************************************************************************)
None == <<>>
Some(v) == <<v>>
IsSome(o) == Len(o) = 1
Unwrap(o) == o[1]

Ok(v) == [tag |-> "Ok", val |-> v]
Err(kind, info) == [tag |-> "Err", err |-> kind, info |-> info]
Panic == [tag |-> "Panic"]
IsOk(r) == r.tag = "Ok"
IsErr(r, kind) == r.tag = "Err" /\ r.err = kind

(***************************************************************************)
(* str primitives.                                                         *)
(***************************************************************************)
\* str::is_char_boundary: byte offset i (0-based) starts a character or ends s
IsCharBoundary(s, i) ==
    \/ i = 0
    \/ i = Len(s)
    \/ (i > 0 /\ i < Len(s) /\ s[i + 1] \notin 128..191)

\* whether &s[a..b] is defined; it panics otherwise
SliceOk(s, a, b) ==
    /\ 0 <= a /\ a <= b /\ b <= Len(s)
    /\ IsCharBoundary(s, a)
    /\ IsCharBoundary(s, b)

\* &s[a..b], byte offsets, half open
Slice(s, a, b) == SubSeq(s, a + 1, b)

Contains(s, c) == \E i \in 1..Len(s) : s[i] = c

\* str::find of a one-byte character: 0-based offset of its first occurrence
Find(s, c) ==
    IF Contains(s, c)
    THEN Some((CHOOSE i \in 1..Len(s) : s[i] = c /\ \A j \in 1..(i - 1) : s[j] # c) - 1)
    ELSE None

StartsWith(s, p) == Len(s) >= Len(p) /\ SubSeq(s, 1, Len(p)) = p

EndsWith(s, p) == Len(s) >= Len(p) /\ SubSeq(s, Len(s) - Len(p) + 1, Len(s)) = p

\* s.split(c).next(): the text before the first c, the whole text without one
SplitNext(s, c) ==
    LET at == Find(s, c)
    IN IF IsSome(at) THEN SubSeq(s, 1, Unwrap(at)) ELSE s

\* Display of an unsigned integer: its decimal digits
RECURSIVE FmtUsize(_)
FmtUsize(n) ==
    IF n < 10 THEN <<48 + n>> ELSE FmtUsize(n \div 10) \o <<48 + (n % 10)>>

(***************************************************************************)
(* SSHVersion and Identification.                                          *)
(***************************************************************************)
Ver2 == [ver |-> "Ver2"]
Ver1(minor) == [ver |-> "Ver1", minor |-> minor]

\* impl Display for SSHVersion
SSHVersion_fmt(v) ==
    IF v.ver = "Ver2" THEN V20 ELSE V1DOT \o FmtUsize(v.minor)

\* Identification::new
Identification(protocol_version, software_version, comments) ==
    [protocol_version |-> protocol_version,
     software_version |-> software_version,
     comments |-> comments]

\* Identification::default_ident, software_version "rssh_0.1"
default_ident ==
    Identification(Ver2, <<114, 115, 115, 104, 95, 48, 46, 49>>, None)

\* longest identification line, in bytes
MaxIdLen == 255

\* Ending with the V2 terminator given to every version
Ending_always_crlf(v) == CR \o LF

\* the terminator chosen by try_encode_to_string's match
Ending(v) ==
    IF v.ver = "Ver2" THEN CR \o LF ELSE LF

\* the format!("SSH-{}-{}{}{ending}") of try_encode_to_string
Render(x) ==
    SSH_DASH \o SSHVersion_fmt(x.protocol_version) \o DASH \o x.software_version
        \o (IF IsSome(x.comments) THEN SP \o Unwrap(x.comments) ELSE <<>>)
        \o Ending(x.protocol_version)

\* try_encode_validate with the length limit compared by >=
try_encode_validate_ge(identification_string) ==
    LET id_string_len == Len(identification_string)
        index == Find(identification_string, 0)
    IN IF id_string_len >= MaxIdLen
       THEN Err("MaxLengthExceeded",
                [length |-> id_string_len, value |-> identification_string])
       ELSE IF IsSome(index)
       THEN Err("ContainsNullCharacter",
                [index |-> Unwrap(index), value |-> identification_string])
       ELSE Ok(identification_string)

\* lines 64-74: the length and NUL validation of the rendered line
try_encode_validate(identification_string) ==
    LET id_string_len == Len(identification_string)
        index == Find(identification_string, 0)
    IN IF id_string_len > MaxIdLen
       THEN Err("MaxLengthExceeded",
                [length |-> id_string_len, value |-> identification_string])
       ELSE IF IsSome(index)
       THEN Err("ContainsNullCharacter",
                [index |-> Unwrap(index), value |-> identification_string])
       ELSE Ok(identification_string)

try_encode_to_string(x) ==
    IF x.protocol_version.ver = "Ver1" /\ x.protocol_version.minor # 99
    THEN Err("UnsupportedProtocolVersion",
             [ver |-> V1DOT \o FmtUsize(x.protocol_version.minor)])
    ELSE try_encode_validate(Render(x))

\* lines 85-93: the same validation, applied to the raw input of decode
decode_validate(identification_string) ==
    LET id_string_len == Len(identification_string)
        index == Find(identification_string, 0)
    IN IF id_string_len > MaxIdLen
       THEN Err("MaxLengthExceeded",
                [length |-> id_string_len, value |-> identification_string])
       ELSE IF IsSome(index)
       THEN Err("ContainsNullCharacter",
                [index |-> Unwrap(index), value |-> identification_string])
       ELSE Ok(identification_string)

\* lines 95-99: the "SSH-" prefix; the error carries &s[0..4]
decode_beginning(identification_string) ==
    IF ~StartsWith(identification_string, SSH_DASH)
    THEN IF SliceOk(identification_string, 0, 4)
         THEN Err("InvalidStringBeginning",
                  [actual |-> Slice(identification_string, 0, 4)])
         ELSE Panic
    ELSE Ok(Slice(identification_string, 4, Len(identification_string)))

\* decode_version matching the version as a prefix, not as the whole token
decode_version_by_prefix(rest) ==
    IF StartsWith(rest, V20)
    THEN Ok([protocol_version |-> Ver2, rest |-> Slice(rest, Len(V20), Len(rest))])
    ELSE IF StartsWith(rest, V199)
    THEN Ok([protocol_version |-> Ver1(99), rest |-> Slice(rest, Len(V199), Len(rest))])
    ELSE Err("InvalidProtocolVersion", [actual |-> SplitNext(rest, 45)])

\* lines 107-113: the version token is the text before the first '-'
decode_version(rest) ==
    LET version == SplitNext(rest, 45)
    IN IF version = V20
       THEN Ok([protocol_version |-> Ver2,
                rest |-> Slice(rest, Len(version), Len(rest))])
       ELSE IF version = V199
       THEN Ok([protocol_version |-> Ver1(99),
                rest |-> Slice(rest, Len(version), Len(rest))])
       ELSE Err("InvalidProtocolVersion", [actual |-> version])

\* decode_ending requiring CRLF of a 1.99 banner as well
decode_ending_crlf_only(identification_string, protocol_version) ==
    IF protocol_version.ver = "Ver2" \/ protocol_version.minor = 99
    THEN IF ~EndsWith(identification_string, CR \o LF)
         THEN LET ending_start_index == Len(identification_string) - 3
              IN IF SliceOk(identification_string, ending_start_index,
                            Len(identification_string))
                 THEN Err("InvalidEnding",
                          [actual |-> Slice(identification_string, ending_start_index,
                                            Len(identification_string))])
                 ELSE Panic
         ELSE Ok(2)
    ELSE Err("UnsupportedProtocolVersion",
             [ver |-> V1DOT \o FmtUsize(protocol_version.minor)])

\* lines 116-134: the terminator the version requires; yields end_len
decode_ending(identification_string, protocol_version) ==
    IF protocol_version.ver = "Ver2"
    THEN IF ~EndsWith(identification_string, CR \o LF)
         THEN LET ending_start_index == Len(identification_string) - 3
              IN IF SliceOk(identification_string, ending_start_index,
                            Len(identification_string))
                 THEN Err("InvalidEnding",
                          [actual |-> Slice(identification_string, ending_start_index,
                                            Len(identification_string))])
                 ELSE Panic
         ELSE Ok(2)
    ELSE IF protocol_version.minor = 99
    THEN IF ~EndsWith(identification_string, LF)
         THEN LET ending_start_index == Len(identification_string) - 2
              IN IF SliceOk(identification_string, ending_start_index,
                            Len(identification_string))
                 THEN Err("InvalidEnding",
                          [actual |-> Slice(identification_string, ending_start_index,
                                            Len(identification_string))])
                 ELSE Panic
         ELSE Ok(1)
    ELSE Err("UnsupportedProtocolVersion",
             [ver |-> V1DOT \o FmtUsize(protocol_version.minor)])

\* lines 141-153: software version and comment text of the text after "-"
\* (split(" ").next() always yields a piece, so the None arm is never taken;
\* a slice whose bounds cross, or usize underflow of len - end_len, panics)
decode_fields(rest, end_len) ==
    IF Contains(rest, 32)
    THEN LET version == SplitNext(rest, 32)
         IN IF SliceOk(rest, Len(version) + 1, Len(rest) - end_len)
            THEN Ok([software_version |-> version,
                     rest |-> Slice(rest, Len(version) + 1, Len(rest) - end_len)])
            ELSE Panic
    ELSE IF SliceOk(rest, 0, Len(rest) - end_len)
         THEN Ok([software_version |-> Slice(rest, 0, Len(rest) - end_len),
                  rest |-> <<>>])
         ELSE Panic

\* lines 155-158: an empty comment text is no comment
decode_comments(rest) ==
    IF Len(rest) = 0 THEN None ELSE Some(rest)

decode_from_string(identification_string) ==
    LET valid == decode_validate(identification_string)
    IN IF ~IsOk(valid) THEN valid ELSE
    LET beginning == decode_beginning(identification_string)
    IN IF ~IsOk(beginning) THEN beginning ELSE
    LET parsed == decode_version(beginning.val)
    IN IF ~IsOk(parsed) THEN parsed ELSE
    LET ending == decode_ending(identification_string, parsed.val.protocol_version)
    IN IF ~IsOk(ending) THEN ending ELSE
    IF ~StartsWith(parsed.val.rest, DASH)
    THEN Err("MissingSoftwareVersion", <<>>) ELSE
    LET fields == decode_fields(Slice(parsed.val.rest, 1, Len(parsed.val.rest)),
                                ending.val)
    IN IF ~IsOk(fields) THEN fields ELSE
    Ok(Identification(parsed.val.protocol_version,
                      fields.val.software_version,
                      decode_comments(fields.val.rest)))

(***************************************************************************)
(* Inputs.                                                                 *)
(***************************************************************************)
\* every text of at most n characters of the alphabet A
RECURSIVE Texts(_, _)
Texts(A, n) ==
    IF n = 0 THEN {<<>>}
    ELSE LET T == Texts(A, n - 1) IN T \cup {t \o c : t \in T, c \in A}

\* n times the letter a, to reach the length limit
Pad(n) == [i \in 1..n |-> 97]

PadLens == {0, MaxIdLen - 11}

TextAlphabet == {LowerA, DASH, SP, CR, LF, NUL, EAcute}

Versions == {Ver2, Ver1(99), Ver1(5), Ver1(100)}

SwTexts == {t \o Pad(n) : t \in Texts(TextAlphabet, MaxSwLen), n \in PadLens}

CommentTexts == Texts(TextAlphabet, MaxCommentLen)

\* the banners of the unit tests (lines 169 and 176) and of rssh_testing
OpenSSHBanner ==
    <<83, 83, 72, 45, 50, 46, 48, 45, 79, 112, 101, 110, 83, 83, 72, 95, 55, 46,
      54, 112, 49, 32, 85, 98, 117, 110, 116, 117, 45, 52, 117, 98, 117, 110, 116,
      117, 48, 46, 53, 13, 10>>
RsshBanner ==
    <<83, 83, 72, 45, 50, 46, 48, 45, 114, 115, 115, 104, 49, 46, 48, 13, 10>>
testing_ident ==
    Identification(Ver2, <<114, 115, 115, 104, 95, 116, 101, 115, 116, 105, 110, 103>>,
                   None)

Idents ==
    {Identification(v, sw, c) :
        v \in Versions, sw \in SwTexts,
        c \in {None} \cup {Some(t) : t \in CommentTexts}}
    \cup {default_ident, testing_ident}

\* texts a peer may send: a beginning, a version token, a dash or none, a
\* body, padding and an ending
Beginnings == {<<>>, <<83, 83, 72>>, <<115, 115, 104, 45>>, SSH_DASH}
VersionTokens == {<<>>, V20, V199, <<50, 46, 48, 49>>}
Endings == {<<>>, LF, CR \o LF}

Received ==
    {b \o v \o d \o t \o Pad(n) \o e :
        b \in Beginnings, v \in VersionTokens, d \in {<<>>, DASH},
        t \in Texts(TextAlphabet, MaxBodyLen), n \in PadLens, e \in Endings}
    \cup {OpenSSHBanner, RsshBanner}

(***************************************************************************)
(* The identification exchange: a value is encoded and the line decoded    *)
(* by the peer, or a line arrives from a peer and is decoded.              *)
(***************************************************************************)
Init ==
    /\ \/ op = "new" /\ arg \in Idents
       \/ op = "received" /\ arg \in Received
    /\ res = None
    /\ origin = None

TryEncodeToString ==
    /\ op = "new"
    /\ op' = "encoded"
    /\ res' = try_encode_to_string(arg)
    /\ UNCHANGED <<arg, origin>>

DecodeEncoded ==
    /\ op = "encoded"
    /\ IsOk(res)
    /\ op' = "decoded"
    /\ arg' = res.val
    /\ res' = decode_from_string(res.val)
    /\ origin' = Some(arg)

DecodeReceived ==
    /\ op = "received"
    /\ op' = "decoded"
    /\ res' = decode_from_string(arg)
    /\ UNCHANGED <<arg, origin>>

Next == TryEncodeToString \/ DecodeEncoded \/ DecodeReceived

Spec == Init /\ [][Next]_vars

(***************************************************************************)
(* Properties of the identification codec.                                 *)
(***************************************************************************)
\* the value whose encoding is being decoded
Sent == Unwrap(origin)

\* a decode of a line that try_encode_to_string returned for a value whose
\* software_version has no '-' and no space
RoundTripCase ==
    /\ op = "decoded"
    /\ IsSome(origin)
    /\ ~Contains(Sent.software_version, 45)
    /\ ~Contains(Sent.software_version, 32)

\* C1, as stated: for every Identification of version V2 or V1(99) whose
\* software_version has no '-' and no space and whose line is at most 255
\* bytes and NUL-free, with comments absent or any text, the empty text
\* included, decode(encode(x)) succeeds and equals x.
C1_RoundTripAnyComments ==
    RoundTripCase => res = Ok(Sent)

\* C1, amended: the same round trip for comments absent or any non-empty
\* text; decode(encode(x)) = Ok(x) in all three fields.
C1_RoundTrip ==
    RoundTripCase /\ Sent.comments # Some(<<>>) => res = Ok(Sent)

\* C1: an empty comment comes back as no comment, the other fields unchanged.
C1_EmptyCommentsDropped ==
    RoundTripCase /\ Sent.comments = Some(<<>>)
        => res = Ok(Identification(Sent.protocol_version, Sent.software_version, None))

C1_Witness ==
    /\ RoundTripCase
    /\ Sent.protocol_version = Ver1(99)
    /\ Sent.software_version = EAcute
    /\ Sent.comments = Some(DASH \o SP)
    /\ res = Ok(Sent)

\* C2: for a V2 or V1(99) value try_encode_to_string fails with
\* MaxLengthExceeded when the rendered line is longer than 255 bytes, with
\* ContainsNullCharacter when it is at most 255 bytes and holds a NUL, and
\* returns the rendered line otherwise; a returned line is at most 255 bytes
\* and NUL-free.
C2_EncodeValidation ==
    op = "encoded" /\ arg.protocol_version \in {Ver2, Ver1(99)} =>
        LET line == Render(arg)
        IN /\ Len(line) > 255 => IsErr(res, "MaxLengthExceeded")
           /\ Len(line) <= 255 /\ Contains(line, 0)
                => IsErr(res, "ContainsNullCharacter")
           /\ Len(line) <= 255 /\ ~Contains(line, 0) => res = Ok(line)
           /\ IsOk(res) => Len(res.val) <= 255 /\ ~Contains(res.val, 0)

C2_Witness ==
    /\ op = "encoded"
    /\ arg.protocol_version = Ver2
    /\ Len(Render(arg)) = 255
    /\ Contains(Render(arg), 0)
    /\ IsErr(res, "ContainsNullCharacter")

\* the line C3 describes, written out
ExpectedLine(x) ==
    <<83, 83, 72, 45>>
        \o (IF x.protocol_version = Ver2 THEN <<50, 46, 48>> ELSE <<49, 46, 57, 57>>)
        \o <<45>>
        \o x.software_version
        \o (IF x.comments = None THEN <<>> ELSE <<32>> \o x.comments[1])
        \o (IF x.protocol_version = Ver2 THEN <<13, 10>> ELSE <<10>>)

\* C3: try_encode_to_string renders "SSH-" version "-" software_version,
\* " " comments when comments is present, and the terminator: "2.0" and CRLF
\* for V2, "1.99" and LF for V1(99); V2/"rssh_0.1"/no comments gives
\* "SSH-2.0-rssh_0.1\r\n"; any other V1 minor gives
\* UnsupportedProtocolVersion whatever the other fields hold.
C3_Rendering ==
    op = "encoded" =>
        /\ arg.protocol_version \notin {Ver2, Ver1(99)}
             => IsErr(res, "UnsupportedProtocolVersion")
        /\ arg.protocol_version \in {Ver2, Ver1(99)}
             => /\ IsOk(res) => res.val = ExpectedLine(arg)
                /\ ~IsOk(res) => res.tag = "Err" /\ res.info.value = ExpectedLine(arg)
        /\ arg = default_ident
             => res = Ok(<<83, 83, 72, 45, 50, 46, 48, 45, 114, 115, 115, 104, 95,
                           48, 46, 49, 13, 10>>)

C3_Witness ==
    /\ op = "encoded"
    /\ arg.protocol_version = Ver1(99)
    /\ IsSome(arg.comments)
    /\ IsOk(res)
    /\ res.val = ExpectedLine(arg)

\* a decode of a text that passes the length and NUL validation
DecodedValid ==
    /\ op = "decoded"
    /\ Len(arg) <= 255
    /\ ~Contains(arg, 0)

\* the text between "SSH-2.0-" and the final CRLF of a banner
BannerBody == SubSeq(arg, 9, Len(arg) - 2)

\* a decode of a valid banner "SSH-2.0-" body CRLF
V2BannerCase ==
    /\ DecodedValid
    /\ StartsWith(arg, <<83, 83, 72, 45, 50, 46, 48, 45>>)
    /\ Len(arg) >= 10
    /\ EndsWith(arg, <<13, 10>>)

\* body[i] is the first space of body
FirstSpaceAt(body, i) ==
    body[i] = 32 /\ \A j \in 1..(i - 1) : body[j] # 32

\* C4, as stated: a banner "SSH-2.0-" sw CRLF with no space in sw decodes to
\* (V2, sw, comments absent); a banner "SSH-2.0-" sw " " c CRLF decodes to
\* software_version sw, the text up to the first space, and comments exactly
\* c, everything between that space and the terminator.
C4_FieldExtraction ==
    V2BannerCase =>
        /\ ~Contains(BannerBody, 32)
             => res = Ok(Identification(Ver2, BannerBody, None))
        /\ \A i \in 1..Len(BannerBody) :
             FirstSpaceAt(BannerBody, i)
               => res = Ok(Identification(Ver2, SubSeq(BannerBody, 1, i - 1),
                              Some(SubSeq(BannerBody, i + 1, Len(BannerBody)))))

\* C4, what the code does: as C4, but a comment text c that is empty is
\* returned as comments absent.
C4_FieldExtractionNonEmpty ==
    V2BannerCase =>
        /\ ~Contains(BannerBody, 32)
             => res = Ok(Identification(Ver2, BannerBody, None))
        /\ \A i \in 1..Len(BannerBody) :
             FirstSpaceAt(BannerBody, i)
               => res = Ok(Identification(Ver2, SubSeq(BannerBody, 1, i - 1),
                              IF i = Len(BannerBody) THEN None
                              ELSE Some(SubSeq(BannerBody, i + 1, Len(BannerBody)))))

\* C5, as stated: every input of at most 255 bytes without NUL that does not
\* start with "SSH-" gets the typed error InvalidStringBeginning, whatever
\* its length; decode never aborts.
C5_InvalidBeginningTyped ==
    DecodedValid /\ ~StartsWith(arg, <<83, 83, 72, 45>>)
        => IsErr(res, "InvalidStringBeginning")

\* C5, what the code does: the typed error is returned when byte offset 4
\* exists and is a character boundary, and carries the first four bytes;
\* every other such input aborts.
C5_InvalidBeginningFromFourBytes ==
    DecodedValid /\ ~StartsWith(arg, <<83, 83, 72, 45>>)
        => IF Len(arg) >= 4 /\ (Len(arg) = 4 \/ arg[5] \notin 128..191)
           THEN res = Err("InvalidStringBeginning", [actual |-> SubSeq(arg, 1, 4)])
           ELSE res = Panic

\* the version token of a text that starts with "SSH-": up to the next '-'
VersionToken == SplitNext(SubSeq(arg, 5, Len(arg)), 45)

\* a decode of a valid text "SSH-" token ... with the given version token
TokenCase(token) ==
    /\ DecodedValid
    /\ StartsWith(arg, <<83, 83, 72, 45>>)
    /\ VersionToken = token

\* C6, as stated: a banner with version token "2.0" is accepted only if it
\* ends in CRLF, and one that ends in bare LF is rejected with InvalidEnding;
\* a banner with version token "1.99" is accepted only if it ends in LF and
\* is rejected with InvalidEnding otherwise.
C6_TerminatorStrictness ==
    /\ TokenCase(<<50, 46, 48>>)
         => /\ IsOk(res) => EndsWith(arg, <<13, 10>>)
            /\ EndsWith(arg, <<10>>) /\ ~EndsWith(arg, <<13, 10>>)
                 => IsErr(res, "InvalidEnding")
    /\ TokenCase(<<49, 46, 57, 57>>)
         => /\ IsOk(res) => EndsWith(arg, <<10>>)
            /\ ~EndsWith(arg, <<10>>) => IsErr(res, "InvalidEnding")

\* C6, what the code does: acceptance is as stated; a wrong terminator is
\* rejected, with InvalidEnding carrying the last 3 (2.0) or 2 (1.99) bytes
\* when that offset is a character boundary, by aborting when it is not.
C6_TerminatorRejection ==
    /\ TokenCase(<<50, 46, 48>>)
         => /\ IsOk(res) => EndsWith(arg, <<13, 10>>)
            /\ ~EndsWith(arg, <<13, 10>>)
                 => IF arg[Len(arg) - 2] \notin 128..191
                    THEN res = Err("InvalidEnding",
                                   [actual |-> SubSeq(arg, Len(arg) - 2, Len(arg))])
                    ELSE res = Panic
    /\ TokenCase(<<49, 46, 57, 57>>)
         => /\ IsOk(res) => EndsWith(arg, <<10>>)
            /\ ~EndsWith(arg, <<10>>)
                 => IF arg[Len(arg) - 1] \notin 128..191
                    THEN res = Err("InvalidEnding",
                                   [actual |-> SubSeq(arg, Len(arg) - 1, Len(arg))])
                    ELSE res = Panic

\* a decode of a valid text whose recognised version token, "2.0" or "1.99",
\* is not followed by '-': the token runs to the end of the text
NoDashCase ==
    /\ DecodedValid
    /\ StartsWith(arg, <<83, 83, 72, 45>>)
    /\ VersionToken \in {<<50, 46, 48>>, <<49, 46, 57, 57>>}
    /\ Len(arg) = 4 + Len(VersionToken)

\* C7, as stated: decode reports MissingSoftwareVersion when the recognised
\* version token is not immediately followed by '-' (so some input gets it).
C7_MissingSoftwareVersionReported ==
    NoDashCase => IsErr(res, "MissingSoftwareVersion")

\* C7, amended: decode never returns MissingSoftwareVersion; a recognised
\* version token that is not followed by '-' ends the text, and the
\* terminator check, which comes first, rejects it with InvalidEnding.
C7_MissingSoftwareVersionNeverReturned ==
    op = "decoded" =>
        /\ ~IsErr(res, "MissingSoftwareVersion")
        /\ NoDashCase => IsErr(res, "InvalidEnding")

C7_Witness ==
    /\ NoDashCase
    /\ arg = <<83, 83, 72, 45, 49, 46, 57, 57>>
    /\ res = Err("InvalidEnding", [actual |-> <<57, 57>>])

(***************************************************************************)
(* Messages: NameList and KexInitMessage (message/mod.rs).                 *)
(***************************************************************************)
\* str::chars: the code points of a UTF-8 text
RECURSIVE Chars(_)
Chars(s) ==
    IF s = <<>> THEN <<>>
    ELSE IF s[1] < 128
    THEN <<s[1]>> \o Chars(SubSeq(s, 2, Len(s)))
    ELSE IF s[1] < 224
    THEN <<(s[1] - 192) * 64 + (s[2] - 128)>> \o Chars(SubSeq(s, 3, Len(s)))
    ELSE IF s[1] < 240
    THEN <<(s[1] - 224) * 4096 + (s[2] - 128) * 64 + (s[3] - 128)>>
             \o Chars(SubSeq(s, 4, Len(s)))
    ELSE <<(s[1] - 240) * 262144 + (s[2] - 128) * 4096 + (s[3] - 128) * 64
             + (s[4] - 128)>> \o Chars(SubSeq(s, 5, Len(s)))

\* `x as u8` of a char: the low eight bits of the code point
AsU8(x) == x % 256

\* `n as u32` of a usize: the low 32 bits, as two 16-bit halves
AsU32(n) == ((n \div 65536) % 65536) * 65536 + (n % 65536)

\* u32::to_be_bytes
ToBeBytes(n) ==
    <<(n \div 16777216) % 256, (n \div 65536) % 256, (n \div 256) % 256, n % 256>>

\* elements of a NameList: a text that displays as itself, or a value of one
\* of the algorithm enums, whose Display impls write nothing
Text(t) == [type |-> "String", text |-> t]
Zstd == [type |-> "CompressionAlgorithm", variant |-> "Zstd"]
NoCompression == [type |-> "CompressionAlgorithm", variant |-> "None"]

\* format!("{x}") of an element
Display(x) == IF x.type = "String" THEN x.text ELSE <<>>

\* impl Display for NameList: the elements' texts interspersed with ","
RECURSIVE NameList_fmt(_)
NameList_fmt(this) ==
    IF Len(this) = 0 THEN <<>>
    ELSE IF Len(this) = 1 THEN Display(this[1])
    ELSE Display(this[1]) \o COMMA \o NameList_fmt(Tail(this))

NameList_encode(this) ==
    LET str_nl == NameList_fmt(this)
        chars == Chars(str_nl)
    IN ToBeBytes(AsU32(Len(str_nl))) \o [i \in 1..Len(chars) |-> AsU8(chars[i])]

\* the pieces of a text between commas (str::split(','))
RECURSIVE SplitComma(_)
SplitComma(s) ==
    LET at == Find(s, 44)
    IN IF IsSome(at)
       THEN <<SubSeq(s, 1, Unwrap(at))>> \o SplitComma(SubSeq(s, Unwrap(at) + 2, Len(s)))
       ELSE <<s>>

\* NameList decode as the specification gives it (section 4.2): the 4-byte
\* big-endian length, that many bytes, split on ','; an empty text is the
\* empty list; too few bytes is Truncated
NameList_decode(bytes) ==
    IF Len(bytes) < 4 THEN Err("Truncated", <<>>)
    ELSE LET len == bytes[1] * 16777216 + bytes[2] * 65536 + bytes[3] * 256 + bytes[4]
         IN IF Len(bytes) - 4 < len THEN Err("Truncated", <<>>)
            ELSE IF len = 0 THEN Ok(<<>>)
            ELSE LET names == SplitComma(SubSeq(bytes, 5, 4 + len))
                 IN Ok([i \in 1..Len(names) |-> Text(names[i])])

\* MessageType::KexInit
KexInit == 20

\* KexInitMessage::get_type
KexInitMessage_get_type == KexInit

\* KexInitMessage_encode writing the reserved field instead of zero
KexInitMessage_encode_reserved(self) ==
    <<KexInitMessage_get_type>>
        \o self.cookie
        \o NameList_encode(self.kex_algorithms)
        \o NameList_encode(self.server_host_key_algorithms)
        \o NameList_encode(self.encryption_algorithms_client_to_server)
        \o NameList_encode(self.encryption_algorithms_server_to_client)
        \o NameList_encode(self.mac_algorithms_client_to_server)
        \o NameList_encode(self.mac_algorithms_server_to_client)
        \o NameList_encode(self.compression_algorithms_client_to_server)
        \o NameList_encode(self.compression_algorithms_server_to_client)
        \o NameList_encode(self.languages_client_to_server)
        \o NameList_encode(self.languages_server_to_client)
        \o <<IF self.first_kex_packet_follows THEN 1 ELSE 0>>
        \o ToBeBytes(self.reserved)

KexInitMessage_encode(self) ==
    <<KexInitMessage_get_type>>
        \o self.cookie
        \o NameList_encode(self.kex_algorithms)
        \o NameList_encode(self.server_host_key_algorithms)
        \o NameList_encode(self.encryption_algorithms_client_to_server)
        \o NameList_encode(self.encryption_algorithms_server_to_client)
        \o NameList_encode(self.mac_algorithms_client_to_server)
        \o NameList_encode(self.mac_algorithms_server_to_client)
        \o NameList_encode(self.compression_algorithms_client_to_server)
        \o NameList_encode(self.compression_algorithms_server_to_client)
        \o NameList_encode(self.languages_client_to_server)
        \o NameList_encode(self.languages_server_to_client)
        \o <<IF self.first_kex_packet_follows THEN 1 ELSE 0>>
        \o ToBeBytes(0)

\* KexInitMessage::decode: the length check, then todo!()
KexInitMessage_decode(data) ==
    IF Len(data) < 17
    THEN Err("Packet to short", <<>>)
    ELSE Panic

\* SSHService
UserAuth == [service |-> "UserAuth"]
Connection == [service |-> "Connection"]
Named(name) == [service |-> "Named", name |-> name]

\* impl Display for SSHService: "ssh-userauth", "ssh-connection" or the name
SSHService_fmt(self) ==
    IF self.service = "UserAuth"
    THEN <<115, 115, 104, 45, 117, 115, 101, 114, 97, 117, 116, 104>>
    ELSE IF self.service = "Connection"
    THEN <<115, 115, 104, 45, 99, 111, 110, 110, 101, 99, 116, 105, 111, 110>>
    ELSE self.name

\* MessageType::ServiceRequest
ServiceRequestType == 5

\* ServiceRequest::get_type
ServiceRequest_get_type == ServiceRequestType

ServiceRequest_encode(self) ==
    LET service == SSHService_fmt(self.service)
        chars == Chars(service)
    IN <<ServiceRequest_get_type>>
           \o ToBeBytes(AsU32(Len(service)))
           \o [i \in 1..Len(chars) |-> AsU8(chars[i])]

\* every sequence of at most n elements of S
RECURSIVE Lists(_, _)
Lists(S, n) ==
    IF n = 0 THEN {<<>>}
    ELSE LET L == Lists(S, n - 1) IN L \cup {l \o <<x>> : l \in L, x \in S}

NameAlphabet == {LowerA, COMMA, EAcute}

Names == {Text(t) : t \in Texts(NameAlphabet, MaxNameLen)}

NameLists == Lists(Names, MaxNames)

\* KexAlgorithm, EncryptionAlgorithm, MacAlgorithm and Language have no
\* variants, so their lists are empty; CompressionAlgorithm has two
CompressionLists == Lists({Zstd, NoCompression}, MaxNames)

Cookies == {[i \in 1..16 |-> 0], [i \in 1..16 |-> i], [i \in 1..16 |-> 255]}

KexInitMessages ==
    {[cookie |-> c,
      kex_algorithms |-> <<>>,
      server_host_key_algorithms |-> <<>>,
      encryption_algorithms_client_to_server |-> <<>>,
      encryption_algorithms_server_to_client |-> <<>>,
      mac_algorithms_client_to_server |-> <<>>,
      mac_algorithms_server_to_client |-> <<>>,
      compression_algorithms_client_to_server |-> cs,
      compression_algorithms_server_to_client |-> sc,
      languages_client_to_server |-> <<>>,
      languages_server_to_client |-> <<>>,
      first_kex_packet_follows |-> f,
      reserved |-> r] :
        c \in Cookies, cs \in CompressionLists, sc \in CompressionLists,
        f \in BOOLEAN, r \in {0, 1, 2147483647}}

ServiceRequests ==
    {[service |-> sv] :
        sv \in {UserAuth, Connection}
               \cup {Named(t) : t \in Texts(NameAlphabet \cup {DASH}, MaxServiceLen)}}

\* byte strings handed to KexInitMessage::decode: n bytes, all zero or all
\* the KexInit tag
KexInitData ==
    {[i \in 1..n |-> b] : n \in 0..MaxDataLen, b \in {0, KexInit}}

InitMessage ==
    /\ \/ op = "namelist" /\ arg \in NameLists
       \/ op = "kexinit" /\ arg \in KexInitMessages
       \/ op = "kexinit_data" /\ arg \in KexInitData
       \/ op = "service_request" /\ arg \in ServiceRequests
    /\ res = None
    /\ origin = None

NameListEncode ==
    /\ op = "namelist"
    /\ op' = "namelist_encoded"
    /\ res' = NameList_encode(arg)
    /\ UNCHANGED <<arg, origin>>

NameListDecode ==
    /\ op = "namelist_encoded"
    /\ op' = "namelist_decoded"
    /\ arg' = res
    /\ res' = NameList_decode(res)
    /\ origin' = Some(arg)

KexInitEncode ==
    /\ op = "kexinit"
    /\ op' = "kexinit_encoded"
    /\ res' = KexInitMessage_encode(arg)
    /\ UNCHANGED <<arg, origin>>

KexInitDecodeEncoded ==
    /\ op = "kexinit_encoded"
    /\ op' = "kexinit_decoded"
    /\ arg' = res
    /\ res' = KexInitMessage_decode(res)
    /\ origin' = Some(arg)

KexInitDecodeReceived ==
    /\ op = "kexinit_data"
    /\ op' = "kexinit_decoded"
    /\ res' = KexInitMessage_decode(arg)
    /\ UNCHANGED <<arg, origin>>

ServiceRequestEncode ==
    /\ op = "service_request"
    /\ op' = "service_request_encoded"
    /\ res' = ServiceRequest_encode(arg)
    /\ UNCHANGED <<arg, origin>>

NextMessage ==
    \/ NameListEncode
    \/ NameListDecode
    \/ KexInitEncode
    \/ KexInitDecodeEncoded
    \/ KexInitDecodeReceived
    \/ ServiceRequestEncode

SpecMessage == InitMessage /\ [][NextMessage]_vars

(***************************************************************************)
(* Properties of the message codec.                                        *)
(***************************************************************************)
\* the texts of a list of names, joined with ','
RECURSIVE Joined(_)
Joined(names) ==
    IF names = <<>> THEN <<>>
    ELSE IF Len(names) = 1 THEN names[1].text
    ELSE names[1].text \o <<44>> \o Joined(Tail(names))

\* the value of a 4-byte big-endian length prefix
Prefix(bytes) ==
    bytes[1] * 16777216 + bytes[2] * 65536 + bytes[3] * 256 + bytes[4]

IsAscii(s) == \A i \in 1..Len(s) : s[i] < 128

\* C8, as stated: NameList::encode gives a 4-byte big-endian length prefix,
\* then the names joined with ',' in insertion order; the prefix equals the
\* number of body bytes that follow it, and the empty list encodes to the
\* four bytes 0,0,0,0.
C8_NameListEncode ==
    op = "namelist_encoded" =>
        /\ Len(res) >= 4
        /\ Prefix(res) = Len(res) - 4
        /\ SubSeq(res, 5, Len(res)) = Joined(arg)
        /\ arg = <<>> => res = <<0, 0, 0, 0>>

\* C8, what the code does: the prefix is the UTF-8 byte count of the joined
\* text while the body holds one byte per character, so the two agree, and
\* the body is the joined text, when the names are ASCII.
C8_NameListEncodeAscii ==
    op = "namelist_encoded" =>
        /\ Len(res) >= 4
        /\ Prefix(res) = Len(Joined(arg))
        /\ Len(res) - 4 = Len(Chars(Joined(arg)))
        /\ IsAscii(Joined(arg)) => SubSeq(res, 5, Len(res)) = Joined(arg)
        /\ arg = <<>> => res = <<0, 0, 0, 0>>

\* C9, as stated: for every list x of names without a comma, the list
\* holding only the empty name included, decoding NameList::encode(x) by the
\* specified rule returns x.
C9_NameListRoundTrip ==
    op = "namelist_decoded"
      /\ (\A i \in 1..Len(Sent) : ~Contains(Sent[i].text, 44))
        => res = Ok(Sent)

\* C9, what the code does: the round trip holds for lists of ASCII names
\* without a comma other than the list holding only the empty name, which
\* encodes as the empty list does.
C9_NameListRoundTripAscii ==
    op = "namelist_decoded"
      /\ (\A i \in 1..Len(Sent) : ~Contains(Sent[i].text, 44) /\ IsAscii(Sent[i].text))
        => IF Sent = <<Text(<<>>)>> THEN res = Ok(<<>>) ELSE res = Ok(Sent)

\* C10: KexInitMessage::encode emits the tag byte 20, the 16 cookie bytes,
\* the ten NameList encodings in declaration order, one byte that is 1 when
\* first_kex_packet_follows and 0 otherwise, and four zero bytes whatever
\* reserved holds; the length is 1 + 16 + the ten NameList sizes + 1 + 4.
C10_KexInitEncode ==
    op = "kexinit_encoded" =>
        LET lists == <<NameList_encode(arg.kex_algorithms),
                       NameList_encode(arg.server_host_key_algorithms),
                       NameList_encode(arg.encryption_algorithms_client_to_server),
                       NameList_encode(arg.encryption_algorithms_server_to_client),
                       NameList_encode(arg.mac_algorithms_client_to_server),
                       NameList_encode(arg.mac_algorithms_server_to_client),
                       NameList_encode(arg.compression_algorithms_client_to_server),
                       NameList_encode(arg.compression_algorithms_server_to_client),
                       NameList_encode(arg.languages_client_to_server),
                       NameList_encode(arg.languages_server_to_client)>>
            sizes == Len(lists[1]) + Len(lists[2]) + Len(lists[3]) + Len(lists[4])
                     + Len(lists[5]) + Len(lists[6]) + Len(lists[7]) + Len(lists[8])
                     + Len(lists[9]) + Len(lists[10])
        IN /\ res = <<20>> \o arg.cookie
                      \o lists[1] \o lists[2] \o lists[3] \o lists[4] \o lists[5]
                      \o lists[6] \o lists[7] \o lists[8] \o lists[9] \o lists[10]
                      \o <<IF arg.first_kex_packet_follows THEN 1 ELSE 0>>
                      \o <<0, 0, 0, 0>>
           /\ Len(res) = 1 + 16 + sizes + 1 + 4

C10_Witness ==
    /\ op = "kexinit_encoded"
    /\ arg.reserved = 1
    /\ arg.first_kex_packet_follows
    /\ arg.cookie = [i \in 1..16 |-> i]
    /\ arg.compression_algorithms_client_to_server = <<Zstd, NoCompression>>
    /\ arg.compression_algorithms_server_to_client = <<>>
    /\ res = <<20>> \o [i \in 1..16 |-> i]
               \o <<0, 0, 0, 0, 0, 0, 0, 0, 0, 0, 0, 0, 0, 0, 0, 0, 0, 0, 0, 0,
                    0, 0, 0, 0>>
               \o <<0, 0, 0, 1, 44>> \o <<0, 0, 0, 0>>
               \o <<0, 0, 0, 0, 0, 0, 0, 0>>
               \o <<1>> \o <<0, 0, 0, 0>>

\* the name C11 gives each service
ServiceName(sv) ==
    IF sv = UserAuth
    THEN <<115, 115, 104, 45, 117, 115, 101, 114, 97, 117, 116, 104>>
    ELSE IF sv = Connection
    THEN <<115, 115, 104, 45, 99, 111, 110, 110, 101, 99, 116, 105, 111, 110>>
    ELSE sv.name

\* C11, as stated: ServiceRequest::encode emits the tag byte 5, a 4-byte
\* big-endian length and the service name bytes ("ssh-userauth",
\* "ssh-connection" or the given text); the length field equals the number
\* of name bytes that follow and the output is 5 + that number long, for
\* every service name.
C11_ServiceRequestEncode ==
    op = "service_request_encoded" =>
        /\ Len(res) >= 5
        /\ res[1] = 5
        /\ Prefix(SubSeq(res, 2, 5)) = Len(res) - 5
        /\ SubSeq(res, 6, Len(res)) = ServiceName(arg.service)
        /\ Len(res) = 5 + Prefix(SubSeq(res, 2, 5))

\* C11, what the code does: the length field is the UTF-8 byte count of the
\* name while one byte per character follows; they agree, and the bytes are
\* the name, when the name is ASCII.
C11_ServiceRequestEncodeAscii ==
    op = "service_request_encoded" =>
        /\ Len(res) >= 5
        /\ res[1] = 5
        /\ Prefix(SubSeq(res, 2, 5)) = Len(ServiceName(arg.service))
        /\ Len(res) - 5 = Len(Chars(ServiceName(arg.service)))
        /\ IsAscii(ServiceName(arg.service))
             => SubSeq(res, 6, Len(res)) = ServiceName(arg.service)

\* C14, as stated: KexInitMessage::decode returns a typed error for every
\* input shorter than the 62 bytes of the smallest KexInit, and for every
\* input returns a message or a typed error, never aborting.
C14_KexInitDecodeTruncated ==
    op = "kexinit_decoded" =>
        /\ Len(arg) < 62 => res.tag = "Err"
        /\ res.tag \in {"Ok", "Err"}

\* C14, what the code does: an error below 17 bytes, an abort (todo!) from
\* 17 bytes on, the encodings of KexInitMessage::encode included.
C14_KexInitDecodeUnimplemented ==
    op = "kexinit_decoded" =>
        IF Len(arg) < 17 THEN res.tag = "Err" ELSE res = Panic

(***************************************************************************)
(* Packet framing (packet/mod.rs) and the Cipher capability                *)
(* (encryption/mod.rs).                                                    *)
(***************************************************************************)
\* a Box<dyn Cipher>: a CipherType, or another implementer of the trait
\* reporting its own block size
CipherType(variant) == [kind |-> "CipherType", variant |-> variant]
OtherCipher(block_size) == [kind |-> "Other", block_size |-> block_size]

\* Cipher::get_block_size; impl Cipher for CipherType returns 8
get_block_size(cipher) ==
    IF cipher.kind = "CipherType" THEN 8 ELSE cipher.block_size

\* u32::to_le_bytes
ToLeBytes(n) ==
    <<n % 256, (n \div 256) % 256, (n \div 65536) % 256, (n \div 16777216) % 256>>

\* Packet::new; the Mac is stored and never read by encode
Packet(payload, cipher) == [payload |-> payload, encryption_cipher |-> cipher]

\* lines 24-28 of Packet::encode
padding_length(self) ==
    IF 8 > get_block_size(self.encryption_cipher)
    THEN Len(self.payload) % 8
    ELSE Len(self.payload) % get_block_size(self.encryption_cipher)

Packet_encode(self) ==
    ToLeBytes(AsU32(Len(self.payload)))
        \o <<AsU8(padding_length(self))>>
        \o [i \in 1..padding_length(self) |-> AsU8(i - 1)]

Payloads ==
    {[i \in 1..n |-> (b + i) % 256] : n \in 0..MaxPayloadLen, b \in {0, 200}}

Ciphers ==
    {CipherType("None"), CipherType("AES128CBC"), OtherCipher(1), OtherCipher(16)}

Packets == {Packet(payload, cipher) : payload \in Payloads, cipher \in Ciphers}

InitPacket ==
    /\ op = "packet"
    /\ arg \in Packets
    /\ res = None
    /\ origin = None

PacketEncode ==
    /\ op = "packet"
    /\ op' = "packet_encoded"
    /\ res' = Packet_encode(arg)
    /\ UNCHANGED <<arg, origin>>

NextPacket == PacketEncode

SpecPacket == InitPacket /\ [][NextPacket]_vars

(***************************************************************************)
(* Properties of the packet framer.                                        *)
(***************************************************************************)
\* max(8, block_size) of the packet being encoded
Block ==
    IF get_block_size(arg.encryption_cipher) > 8
    THEN get_block_size(arg.encryption_cipher) ELSE 8

\* the padding length byte of an encoded packet
EmittedPadding == res[5]

\* C12, as stated: for every payload length and block size >= 1 the emitted
\* padding length p has 4 <= p <= 255, makes 4 + 1 + len(payload) + p a
\* multiple of max(8, block_size), and is the smallest such value >= 4.
C12_PaddingLength ==
    op = "packet_encoded" =>
        /\ 4 <= EmittedPadding /\ EmittedPadding <= 255
        /\ (4 + 1 + Len(arg.payload) + EmittedPadding) % Block = 0
        /\ \A q \in 4..(EmittedPadding - 1) :
             (4 + 1 + Len(arg.payload) + q) % Block # 0

\* C12, what the code does: p is len(payload) mod max(8, block_size).
C12_PaddingIsRemainder ==
    op = "packet_encoded" => EmittedPadding = Len(arg.payload) % Block

\* C13, as stated: the output is a 4-byte big-endian length field of value
\* 1 + len(payload) + p, one byte p, the payload unchanged at offset 5, then
\* p padding bytes; it is at least 5 + len(payload) + p bytes long.
C13_PacketLayout ==
    op = "packet_encoded" =>
        /\ Len(res) >= 5 + Len(arg.payload) + EmittedPadding
        /\ Prefix(res) = 1 + Len(arg.payload) + EmittedPadding
        /\ SubSeq(res, 6, 5 + Len(arg.payload)) = arg.payload

\* C13, what the code does: the little-endian payload length, the byte p and
\* the p bytes 0 .. p-1; the payload itself is not emitted.
C13_PacketLayoutEmitted ==
    op = "packet_encoded" =>
        LET len == Len(arg.payload)
        IN /\ Len(res) = 5 + EmittedPadding
           /\ SubSeq(res, 1, 4) = <<len % 256, len \div 256, 0, 0>>
           /\ \A i \in 1..EmittedPadding : res[5 + i] = i - 1

(***************************************************************************)
(* Further properties of the identification codec.                         *)
(***************************************************************************)
\* the decoded text has the terminator its version token requires
TerminatorMatches ==
    IF VersionToken = <<50, 46, 48>>
    THEN EndsWith(arg, <<13, 10>>)
    ELSE EndsWith(arg, <<10>>)

\* C15, as stated: decode_from_string returns the error of the earliest
\* violated step: longer than 255 bytes gives MaxLengthExceeded; else a NUL
\* gives ContainsNullCharacter; else a missing "SSH-" prefix gives
\* InvalidStringBeginning; else a version token other than "2.0" and "1.99"
\* gives InvalidProtocolVersion; else a wrong terminator gives InvalidEnding.
C15_CheckOrder ==
    op = "decoded" =>
        /\ Len(arg) > 255 => IsErr(res, "MaxLengthExceeded")
        /\ Len(arg) <= 255 /\ Contains(arg, 0)
             => IsErr(res, "ContainsNullCharacter")
        /\ DecodedValid /\ ~StartsWith(arg, <<83, 83, 72, 45>>)
             => IsErr(res, "InvalidStringBeginning")
        /\ DecodedValid /\ StartsWith(arg, <<83, 83, 72, 45>>)
             => /\ VersionToken \notin {<<50, 46, 48>>, <<49, 46, 57, 57>>}
                     => IsErr(res, "InvalidProtocolVersion")
                /\ VersionToken \in {<<50, 46, 48>>, <<49, 46, 57, 57>>}
                     /\ ~TerminatorMatches
                     => IsErr(res, "InvalidEnding")

\* C15, what the code does: the steps are taken in the stated order; the
\* prefix step and the terminator step report their error or abort while
\* slicing the text the error carries, and no later step is reached.
C15_CheckOrderOrAbort ==
    op = "decoded" =>
        /\ Len(arg) > 255 => IsErr(res, "MaxLengthExceeded")
        /\ Len(arg) <= 255 /\ Contains(arg, 0)
             => IsErr(res, "ContainsNullCharacter")
        /\ DecodedValid /\ ~StartsWith(arg, <<83, 83, 72, 45>>)
             => IsErr(res, "InvalidStringBeginning") \/ res = Panic
        /\ DecodedValid /\ StartsWith(arg, <<83, 83, 72, 45>>)
             => /\ VersionToken \notin {<<50, 46, 48>>, <<49, 46, 57, 57>>}
                     => IsErr(res, "InvalidProtocolVersion")
                /\ VersionToken \in {<<50, 46, 48>>, <<49, 46, 57, 57>>}
                     /\ ~TerminatorMatches
                     => IsErr(res, "InvalidEnding") \/ res = Panic

\* C16: every line that try_encode_to_string returns is accepted by
\* decode_from_string, whatever the software_version and comments hold
\* ('-', spaces, CR and LF included): the decode succeeds and yields the
\* protocol version of the encoded value.
C16_EncodedIsAccepted ==
    op = "decoded" /\ IsSome(origin) =>
        /\ IsOk(res)
        /\ res.val.protocol_version = Sent.protocol_version

C16_Witness ==
    /\ op = "decoded"
    /\ IsSome(origin)
    /\ Sent.protocol_version = Ver1(99)
    /\ Sent.software_version = <<45>>
    /\ Sent.comments = Some(<<32, 13>>)
    /\ IsOk(res)
    /\ res.val.protocol_version = Ver1(99)

\* C17, as stated: whenever decode_from_string succeeds the returned
\* software_version holds no space, and neither it nor the returned
\* comments holds a CR or LF, for 2.0 banners and for 1.99 banners, those
\* ending in CRLF included.
C17_TerminatorStripped ==
    op = "decoded" /\ IsOk(res) =>
        /\ ~Contains(res.val.software_version, 32)
        /\ ~Contains(res.val.software_version, 13)
        /\ ~Contains(res.val.software_version, 10)
        /\ IsSome(res.val.comments)
             => /\ ~Contains(Unwrap(res.val.comments), 13)
                /\ ~Contains(Unwrap(res.val.comments), 10)

\* C17, what the code does: the software_version holds no space; of a 1.99
\* banner that ends in CRLF only the LF is removed, so the last field
\* returned ends in CR.
C17_LineFeedStripped ==
    op = "decoded" /\ IsOk(res) =>
        /\ ~Contains(res.val.software_version, 32)
        /\ res.val.protocol_version = Ver1(99) /\ EndsWith(arg, <<13, 10>>)
             => EndsWith(IF IsSome(res.val.comments)
                         THEN Unwrap(res.val.comments)
                         ELSE res.val.software_version, <<13>>)

====
